---------------------------- MODULE Spec2Model ----------------------------
(***************************************************************************)
(* PYPOWER-Dynamics, 4th order synchronous machine (pydyn/sym_order4.py).  *)
(*                                                                         *)
(* The class sym_order4 is modelled as a state machine: one machine        *)
(* object, its dictionaries (signals, states, states0, dsteps, params),   *)
(* and one action per public method (initialise, calc_currents,           *)
(* solve_step).  check_diffs is called by initialise and is part of it.   *)
(*                                                                         *)
(* Numbers.  Python floats are modelled as exact rationals <<n, d>> in     *)
(* lowest terms (d > 0); complex numbers as records [re, im] of           *)
(* rationals.  Angles are measured in turns (1 turn = 2*pi rad), so that  *)
(* the nominal frequency 2*pi*50 rad/s is the rational 50 turns/s and the *)
(* angles of axis-aligned phasors are the rationals 0, 1/4, 1/2, -1/4.    *)
(* np.sin, np.cos, np.abs and np.angle are rational exactly at the whole   *)
(* numbers of quarter turns and on axis-aligned phasors.  The model stays *)
(* inside that domain: the load-flow solutions offered to initialise have *)
(* axis-aligned phasors, and the network solver calls calc_currents while *)
(* the rotor angle is a whole number of quarter turns.  Inside it every   *)
(* value of the model is the real number the code computes, up to the     *)
(* rounding of floats.                                                    *)
(***************************************************************************)
EXTENDS Integers, Sequences, FiniteSets, TLC

VARIABLES opt, params, signals, states, states0, dsteps,
          warning, ret, macro, env, calls

vars == <<opt, params, signals, states, states0, dsteps,
          warning, ret, macro, env, calls>>

-----------------------------------------------------------------------------
(* Bounds of the model *)

\* number of method calls explored by Spec (any order of calls)
MaxCalls == 6

\* number of method calls explored by SteadySpec (the caller's protocol)
MaxSteadyCalls == 17

-----------------------------------------------------------------------------
(* Float arithmetic, as exact rationals *)

IAbs(i) == IF i < 0 THEN -i ELSE i

RECURSIVE gcd(_, _)
gcd(a, b) == IF b = 0 THEN a ELSE gcd(b, a % b)

\* the rational n/d in lowest terms with a positive denominator
Rat(n, d) ==
    LET g == gcd(IAbs(n), IAbs(d))
        s == IF d < 0 THEN -1 ELSE 1
    IN  <<(s * n) \div g, (s * d) \div g>>

Num(n) == <<n, 1>>
Zero == Num(0)
One == Num(1)
Half == Rat(1, 2)

\* sum and product, cancelling common factors before multiplying so that no
\* intermediate integer is larger than the result needs
Add(x, y) ==
    LET g == gcd(x[2], y[2])
    IN  Rat(x[1] * (y[2] \div g) + y[1] * (x[2] \div g), (x[2] \div g) * y[2])
Neg(x) == <<-x[1], x[2]>>
Sub(x, y) == Add(x, Neg(y))
Mul(x, y) ==
    LET g == gcd(IAbs(x[1]), y[2])
        h == gcd(IAbs(y[1]), x[2])
    IN  <<(x[1] \div g) * (y[1] \div h), (x[2] \div h) * (y[2] \div g)>>
Inv(x) == IF x[1] < 0 THEN <<-x[2], -x[1]>> ELSE <<x[2], x[1]>>
Div(x, y) == Mul(x, Inv(y))
Less(x, y) == x[1] * y[2] < y[1] * x[2]
FAbs(x) == <<IAbs(x[1]), x[2]>>

\* integer square root (floor), by bisection on lo..hi
RECURSIVE isqrt(_, _, _)
isqrt(n, lo, hi) ==
    IF lo >= hi THEN lo
    ELSE LET mid == (lo + hi + 1) \div 2
         IN  IF mid * mid <= n THEN isqrt(n, mid, hi) ELSE isqrt(n, lo, mid - 1)

\* np.sqrt: exact whenever the argument is the square of a rational
Sqrt(x) ==
    LET top(n) == IF n > 46340 THEN 46340 ELSE n
    IN  Rat(isqrt(x[1], 0, top(x[1])), isqrt(x[2], 0, top(x[2])))

\* round(x, 6) # 0 in Python: x is farther from 0 than half of 10^-6
RoundNonZero(x) == 2000000 * IAbs(x[1]) > x[2]

-----------------------------------------------------------------------------
(* Trigonometry on angles in turns *)

Quarter == Rat(1, 4)

\* the angle is a whole number of quarter turns
QuarterTurns(t) == t[2] \in {1, 2, 4}

\* the quadrant 0..3 of an angle that is a whole number of quarter turns
Quadrant(t) == (t[1] * (4 \div t[2])) % 4

\* np.cos and np.sin at a whole number of quarter turns
Cos(t) == CASE Quadrant(t) = 0 -> One
            [] Quadrant(t) = 1 -> Zero
            [] Quadrant(t) = 2 -> Neg(One)
            [] Quadrant(t) = 3 -> Zero

Sin(t) == CASE Quadrant(t) = 0 -> Zero
            [] Quadrant(t) = 1 -> One
            [] Quadrant(t) = 2 -> Zero
            [] Quadrant(t) = 3 -> Neg(One)

-----------------------------------------------------------------------------
(* Complex numbers *)

Cx(re, im) == [re |-> re, im |-> im]
CZero == Cx(Zero, Zero)
CAdd(a, b) == Cx(Add(a.re, b.re), Add(a.im, b.im))
CMul(a, b) == Cx(Sub(Mul(a.re, b.re), Mul(a.im, b.im)),
                 Add(Mul(a.re, b.im), Mul(a.im, b.re)))
CConj(a) == Cx(a.re, Neg(a.im))
CNorm2(a) == Add(Mul(a.re, a.re), Mul(a.im, a.im))
CDiv(a, b) == LET n == CMul(a, CConj(b)) IN Cx(Div(n.re, CNorm2(b)), Div(n.im, CNorm2(b)))

\* np.abs of a complex number
CAbs(a) == Sqrt(CNorm2(a))

\* a phasor on the real or the imaginary axis
AxisAligned(a) == a.re = Zero \/ a.im = Zero

\* np.angle (atan2(im, re), in (-1/2, 1/2] turns) of an axis-aligned phasor;
\* np.angle(0) is 0
Angle(a) ==
    IF a.im = Zero THEN (IF Less(a.re, Zero) THEN Half ELSE Zero)
    ELSE IF Less(Zero, a.im) THEN Quarter ELSE Neg(Quarter)

\* np.exp(1j * t)
CExp(t) == Cx(Cos(t), Sin(t))

-----------------------------------------------------------------------------
(* The machine object *)

StateNames == {"omega", "delta", "Eqp", "Edp"}
SignalNames == {"Vfd", "Id", "Iq", "Vd", "Vq", "Vt", "P", "Q", "Pm"}

\* a Python dict is a function on its keys; {} is the function on no key
EmptyDict == [k \in {} |-> Zero]
Has(d, k) == k \in DOMAIN d
Put(d, k, v) == [x \in (DOMAIN d) \cup {k} |-> IF x = k THEN v ELSE d[x]]

\* self.omega_n = 2 * np.pi * 50 rad/s, that is 50 turns/s
omega_n == Num(50)

\* machine files (*.mach) read by the parser: Ra = 0 and Ra > 0
MachineFiles ==
    { [Ra |-> ra, Xd |-> Num(3), Xq |-> Num(2), Xdp |-> Half, Xqp |-> One,
       Td0p |-> Num(2), Tq0p |-> One, H |-> One] : ra \in {Zero, One} }

\* the simulation around the machine: its step size h, the load-flow
\* solutions (terminal voltage vt0, complex power S0) it initialises the
\* machine with, the terminal voltages its network solver passes to
\* calc_currents, and the stage indices it passes to solve_step
StepSizes == { Half }
LoadFlowVoltages == { Cx(One, Zero) }
Powers == { CZero, Cx(Zero, One), Cx(Zero, Neg(One)), Cx(Zero, Neg(Half)) }
Phasors == { Cx(One, Zero), Cx(Zero, One) }
Stages == 0 .. 4

Schemes == {"mod_euler", "runge_kutta"}

\* self.Yg, the Norton admittance computed by the constructor
Yg(p) ==
    CDiv(Cx(p.Ra, Neg(Mul(Half, Add(p.Xdp, p.Xqp)))),
         Cx(Add(Mul(p.Ra, p.Ra), Mul(p.Xdp, p.Xqp)), Zero))

\* what a method call left behind: the method, its stage argument (-1 when
\* it has none), the exception it raised ("none" when it returned) and the
\* value it returned (calc_currents returns the current injection Im)
Ret(op, dstep, exc, Im) == [op |-> op, dstep |-> dstep, exc |-> exc, Im |-> Im]

\* no stage of a macro step has run
NoMacro == [seq |-> <<>>, orig |-> EmptyDict, before |-> EmptyDict,
            ks |-> <<>>, post |-> <<>>]

\* __init__: empty dictionaries, the scheme and the parsed parameters
Init ==
    /\ opt \in Schemes
    /\ params \in MachineFiles
    /\ signals = EmptyDict
    /\ states = EmptyDict
    /\ states0 = EmptyDict
    /\ dsteps = EmptyDict
    /\ warning = FALSE
    /\ ret = Ret("__init__", -1, "none", CZero)
    /\ macro = NoMacro
    /\ env \in [h : StepSizes, vt0 : {CZero}, S0 : {CZero}]
    /\ calls = 0

-----------------------------------------------------------------------------
(* initialise and check_diffs *)

\* initial armature current
Ia0(vt0, S0) == CConj(CDiv(S0, vt0))

\* steady state machine emf (voltage behind synchronous reactance)
Eq0(p, vt0, S0) == CAdd(vt0, CMul(Cx(p.Ra, p.Xq), Ia0(vt0, S0)))

\* check_diffs: TRUE when the warning is printed
check_diffs(st, sig, p) ==
    LET dEqp == Div(Sub(Sub(sig.Vfd, Mul(Sub(p.Xd, p.Xdp), sig.Id)), st.Eqp), p.Td0p)
        dEdp == Div(Sub(Mul(Sub(p.Xq, p.Xqp), sig.Iq), st.Edp), p.Tq0p)
    IN  RoundNonZero(dEdp) \/ RoundNonZero(dEqp)

\* the signals and states initialise computes from the load flow
initial_values(p, vt0, S0) ==
    LET phi0 == Angle(Ia0(vt0, S0))
        delta0 == Angle(Eq0(p, vt0, S0))
        Id0 == Mul(CAbs(Ia0(vt0, S0)), Sin(Sub(delta0, phi0)))
        Iq0 == Mul(CAbs(Ia0(vt0, S0)), Cos(Sub(delta0, phi0)))
        Vd0 == Mul(CAbs(vt0), Sin(Sub(delta0, Angle(vt0))))
        Vq0 == Mul(CAbs(vt0), Cos(Sub(delta0, Angle(vt0))))
        Eqp0 == Add(Add(Vq0, Mul(p.Ra, Iq0)), Mul(p.Xdp, Id0))
        Edp0 == Sub(Add(Vd0, Mul(p.Ra, Id0)), Mul(p.Xqp, Iq0))
        Vfd0 == Add(FAbs(Eqp0), Mul(Sub(p.Xd, p.Xdp), Id0))
        p0 == Add(Mul(Add(Vd0, Mul(p.Ra, Id0)), Id0),
                  Mul(Add(Vq0, Mul(p.Ra, Iq0)), Iq0))
        q0 == Sub(Mul(Vq0, Id0), Mul(Vd0, Iq0))
    IN  [signals |-> [Vfd |-> Vfd0, Id |-> Id0, Iq |-> Iq0, Vd |-> Vd0,
                      Vq |-> Vq0, Vt |-> CAbs(vt0), P |-> p0, Q |-> q0, Pm |-> p0],
         states |-> [omega |-> One, delta |-> delta0, Eqp |-> Eqp0, Edp |-> Edp0]]

\* initialise(vt0, S0), called once, on the machine as constructed
initialise(vt0, S0) ==
    /\ ~Has(states, "omega")
    /\ AxisAligned(Ia0(vt0, S0)) /\ AxisAligned(Eq0(params, vt0, S0))
    /\ Eq0(params, vt0, S0) # CZero
    /\ LET v == initial_values(params, vt0, S0)
       IN  /\ signals' = v.signals
           /\ states' = v.states
           /\ warning' = check_diffs(v.states, v.signals, params)
    /\ ret' = Ret("initialise", -1, "none", CZero)
    /\ env' = [env EXCEPT !.vt0 = vt0, !.S0 = S0]
    /\ calls' = calls + 1
    /\ UNCHANGED <<opt, params, states0, dsteps, macro>>

-----------------------------------------------------------------------------
(* calc_currents *)

\* dq_currents with the sign of Vq wrong in the Ra = 0 branch
dq_currents_sign(p, st, Vd, Vq) ==
    IF Less(Zero, p.Ra)
    THEN LET Iq == Div(Add(Mul(Neg(p.Ra), Sub(Vq, st.Eqp)),
                           Mul(p.Xdp, Sub(Vd, st.Edp))),
                       Add(Mul(p.Xdp, p.Xqp), Mul(p.Ra, p.Ra)))
         IN  [Id |-> Div(Neg(Sub(Sub(Vd, st.Edp), Mul(p.Xqp, Iq))), p.Ra), Iq |-> Iq]
    ELSE [Id |-> Div(Add(st.Eqp, Vq), p.Xdp), Iq |-> Div(Sub(Vd, st.Edp), p.Xqp)]

\* Id and Iq, the Norton equivalent current injection in the dq frame
dq_currents(p, st, Vd, Vq) ==
    IF Less(Zero, p.Ra)
    THEN LET Iq == Div(Add(Mul(Neg(p.Ra), Sub(Vq, st.Eqp)),
                           Mul(p.Xdp, Sub(Vd, st.Edp))),
                       Add(Mul(p.Xdp, p.Xqp), Mul(p.Ra, p.Ra)))
         IN  [Id |-> Div(Neg(Sub(Sub(Vd, st.Edp), Mul(p.Xqp, Iq))), p.Ra), Iq |-> Iq]
    ELSE [Id |-> Div(Sub(st.Eqp, Vq), p.Xdp), Iq |-> Div(Sub(Vd, st.Edp), p.Xqp)]

\* update_signals that also stores the power in Pm, as initialise does
update_signals_pm(sig, Id, Iq, Vd, Vq, p, q) ==
    [sig EXCEPT !.Id = Id, !.Iq = Iq, !.Vd = Vd, !.Vq = Vq, !.P = p, !.Q = q,
                !.Pm = p, !.Vt = Sqrt(Add(Mul(Vd, Vd), Mul(Vq, Vq)))]

\* the "Update signals" block
update_signals(sig, Id, Iq, Vd, Vq, p, q) ==
    [sig EXCEPT !.Id = Id, !.Iq = Iq, !.Vd = Vd, !.Vq = Vq, !.P = p, !.Q = q,
                !.Vt = Sqrt(Add(Mul(Vd, Vd), Mul(Vq, Vq)))]

calc_currents(vt) ==
    /\ IF ~Has(states, "delta")
       THEN /\ ret' = Ret("calc_currents", -1, "KeyError", CZero)
            /\ UNCHANGED signals
       ELSE LET Vd == Mul(CAbs(vt), Sin(Sub(states.delta, Angle(vt))))
                Vq == Mul(CAbs(vt), Cos(Sub(states.delta, Angle(vt))))
                I == dq_currents(params, states, Vd, Vq)
                p == Add(Mul(Add(Vd, Mul(params.Ra, I.Id)), I.Id),
                         Mul(Add(Vq, Mul(params.Ra, I.Iq)), I.Iq))
                q == Sub(Mul(Vq, I.Id), Mul(Vd, I.Iq))
                In == CMul(Cx(I.Iq, Neg(I.Id)), CExp(states.delta))
                Im == CAdd(In, CMul(Yg(params), vt))
            IN  /\ signals' = update_signals(signals, I.Id, I.Iq, Vd, Vq, p, q)
                /\ ret' = Ret("calc_currents", -1, "none", Im)
    /\ calls' = calls + 1
    /\ UNCHANGED <<opt, params, states, states0, dsteps, warning, macro, env>>

-----------------------------------------------------------------------------
(* solve_step *)

\* k_Eqp, k_Edp, k_omega and k_delta: h times the four right-hand sides
derivs(h, st, sig, p) ==
    [Eqp |-> Mul(h, Div(Sub(Sub(sig.Vfd, Mul(Sub(p.Xd, p.Xdp), sig.Id)), st.Eqp), p.Td0p)),
     Edp |-> Mul(h, Div(Sub(Mul(Sub(p.Xq, p.Xqp), sig.Iq), st.Edp), p.Tq0p)),
     omega |-> Mul(h, Mul(Div(One, Mul(Num(2), p.H)), Sub(sig.Pm, sig.P))),
     delta |-> Mul(h, Mul(omega_n, Sub(st.omega, One)))]

\* Modified Euler, predictor: x_0 + k
euler_predictor(x0, k) == Add(x0, k)

\* the corrector averaging with the wrong sign: x_0 + 0.5 * (k + dsteps[0])
euler_corrector_plus(x0, k, d) == Add(x0, Mul(Half, Add(k, d[1])))

\* the corrector with the parentheses lost: x_0 + 0.5 * k - dsteps[0]
euler_corrector_paren(x0, k, d) == Sub(Add(x0, Mul(Half, k)), d[1])

\* Modified Euler, corrector: x_0 + 0.5 * (k - dsteps[0]), x_0 the state
\* read at the start of this call
euler_corrector(x0, k, d) == Add(x0, Mul(Half, Sub(k, d[1])))

\* Runge-Kutta, stages 0 and 1: x_0 + 0.5 * k
rk_half(x0, k) == Add(x0, Mul(Half, k))

\* Runge-Kutta, stage 2: x_0 + k
rk_full(x0, k) == Add(x0, k)

\* stage 3 with the weight 2 of dsteps[2] forgotten
rk_final_weight(s0, d, k) ==
    Add(s0, Mul(Rat(1, 6), Add(Add(Add(d[1], Mul(Num(2), d[2])), d[3]), k)))

\* Runge-Kutta, stage 3: states0 + 1/6 * (dsteps[0] + 2*dsteps[1] + 2*dsteps[2] + k)
rk_final(s0, d, k) ==
    Add(s0, Mul(Rat(1, 6),
                Add(Add(Add(d[1], Mul(Num(2), d[2])), Mul(Num(2), d[3])), k)))

\* rk_dsteps with stage 3 appending its k like stages 1 and 2
rk_dsteps_append(stage, d, k) == IF stage = 0 THEN <<k>> ELSE Append(d, k)

\* the list a Runge-Kutta stage leaves in dsteps: stage 0 assigns [k],
\* stages 1 and 2 append k, stage 3 leaves the list alone
rk_dsteps(stage, d, k) ==
    IF stage = 0 THEN <<k>>
    ELSE IF stage \in {1, 2} THEN Append(d, k)
    ELSE d

\* the chain ending in "else" instead of "elif dstep == 3"
rk_stage_else(dstep) ==
    IF dstep = 0 THEN 0
    ELSE IF dstep = 1 THEN 1
    ELSE IF dstep = 2 THEN 2
    ELSE 3

\* the branch of the if/elif chain on dstep that runs; -1 when none does
rk_stage(dstep) ==
    IF dstep = 0 THEN 0
    ELSE IF dstep = 1 THEN 1
    ELSE IF dstep = 2 THEN 2
    ELSE IF dstep = 3 THEN 3
    ELSE -1

\* the append raising before states['Eqp'] is assigned
eqp_not_assigned(st, x) == st

\* the states left behind when stage 1 or 2 has assigned states['Eqp'] and
\* the append to dsteps['Eqp'] that follows raises
eqp_assigned(st, x) == [st EXCEPT !.Eqp = x]

\* the number of stages of a macro step of the scheme
NStages == IF opt = "mod_euler" THEN 2 ELSE 4

\* the macro step so far: the stages that ran in order since the last
\* stage 0, the states and the dsteps lists before that stage 0, and each
\* stage's k values and resulting states.  A call that raises, or a stage
\* out of order, ends it.
track(dstep, exc, k, st) ==
    IF exc # "none" THEN NoMacro
    ELSE IF dstep = 0
    THEN [seq |-> <<0>>, orig |-> states, before |-> dsteps,
          ks |-> <<k>>, post |-> <<st>>]
    ELSE IF dstep = Len(macro.seq) /\ dstep < NStages
    THEN [macro EXCEPT !.seq = Append(@, dstep), !.ks = Append(@, k),
                       !.post = Append(@, st)]
    ELSE NoMacro

\* how a call of solve_step ends
leaves(dstep, exc, k, st, st0, ds) ==
    /\ states' = st
    /\ states0' = st0
    /\ dsteps' = ds
    /\ ret' = Ret("solve_step", dstep, exc, CZero)
    /\ macro' = track(dstep, exc, k, st)

mod_euler(dstep, k) ==
    IF dstep = 0
    THEN leaves(dstep, "none", k,
                [v \in StateNames |-> euler_predictor(states[v], k[v])],
                states0,
                [v \in StateNames |-> <<k[v]>>])
    ELSE IF ~Has(dsteps, "Eqp")
    THEN leaves(dstep, "KeyError", k, states, states0, dsteps)
    ELSE leaves(dstep, "none", k,
                [v \in StateNames |-> euler_corrector(states[v], k[v], dsteps[v])],
                states0, dsteps)

runge_kutta(dstep, k) ==
    LET stage == rk_stage(dstep)
    IN  IF stage = 0
        THEN leaves(dstep, "none", k,
                    [v \in StateNames |-> rk_half(states[v], k[v])],
                    states,
                    [v \in StateNames |-> rk_dsteps(stage, <<>>, k[v])])
        ELSE IF stage \in {1, 2}
        THEN LET new(v) == IF stage = 1 THEN rk_half(states[v], k[v])
                                        ELSE rk_full(states[v], k[v])
             IN  IF ~Has(dsteps, "Eqp")
                 THEN leaves(dstep, "KeyError", k,
                             eqp_assigned(states, new("Eqp")), states0, dsteps)
                 ELSE leaves(dstep, "none", k,
                             [v \in StateNames |-> new(v)],
                             states0,
                             [v \in StateNames |-> rk_dsteps(stage, dsteps[v], k[v])])
        ELSE IF stage = 3
        THEN IF ~Has(states0, "Eqp")
             THEN leaves(dstep, "KeyError", k, states, states0, dsteps)
             ELSE IF Len(dsteps["Eqp"]) < 3
             THEN leaves(dstep, "IndexError", k, states, states0, dsteps)
             ELSE leaves(dstep, "none", k,
                         [v \in StateNames |-> rk_final(states0[v], dsteps[v], k[v])],
                         states0,
                         [v \in StateNames |-> rk_dsteps(stage, dsteps[v], k[v])])
        ELSE leaves(dstep, "none", k, states, states0, dsteps)

solve_step(h, dstep) ==
    /\ IF ~Has(states, "omega")
       THEN leaves(dstep, "KeyError", EmptyDict, states, states0, dsteps)
       ELSE \E k \in {derivs(h, states, signals, params)} :
                IF opt = "mod_euler" THEN mod_euler(dstep, k)
                ELSE runge_kutta(dstep, k)
    /\ calls' = calls + 1
    /\ UNCHANGED <<opt, params, signals, warning, env>>

-----------------------------------------------------------------------------
(* Specifications *)

\* the rotor angle is one at which the dq transformation of vt is exact
Exact(vt) == Has(states, "delta") => QuarterTurns(states.delta)

\* any caller: the methods in any order, with any of the arguments
Next ==
    \/ \E vt0 \in LoadFlowVoltages, S0 \in Powers : calls < MaxCalls /\ initialise(vt0, S0)
    \/ \E vt \in Phasors : calls < MaxCalls /\ Exact(vt) /\ calc_currents(vt)
    \/ \E dstep \in Stages : calls < MaxCalls /\ solve_step(env.h, dstep)

Spec == Init /\ [][Next]_vars

\* the stage the simulation loop runs next
NextStage == IF Len(macro.seq) >= NStages THEN 0 ELSE Len(macro.seq)

\* the simulation loop without disturbance: after an initialisation without
\* warning, calc_currents with the load-flow voltage before every stage, and
\* the stages of the scheme in order, macro step after macro step
SteadyNext ==
    \/ \E vt0 \in LoadFlowVoltages, S0 \in Powers :
          calls < MaxSteadyCalls /\ initialise(vt0, S0)
    \/ /\ calls < MaxSteadyCalls
       /\ ret.op \in {"initialise", "solve_step"}
       /\ ~warning
       /\ Exact(env.vt0) /\ calc_currents(env.vt0)
    \/ /\ calls < MaxSteadyCalls
       /\ ret.op = "calc_currents"
       /\ solve_step(env.h, NextStage)

SteadySpec == Init /\ [][SteadyNext]_vars

-----------------------------------------------------------------------------
(* Properties *)

Initialised == Has(states, "omega")

\* a call of method op has just returned
Called(op) == ret'.op = op /\ calls' = calls + 1

\* the macro step has run exactly the stages 0 .. n in order
Ran(n) == macro.seq = [i \in 1 .. n + 1 |-> i - 1]

\* the k value stage i of the macro step computed for state v
K(i, v) == macro.ks[i + 1][v]

\* calc_currents changed the power between stages i - 1 and i
Recomputed(i) == K(i, "omega") # K(i - 1, "omega")

\* C1: with runge_kutta, after stages 0, 1, 2, 3 of one macro step every
\* state equals its value before stage 0 plus (k1 + 2 k2 + 2 k3 + k4) / 6,
\* k1 .. k4 being the k values of stages 0 .. 3.
C1_RungeKuttaFinal ==
    (opt = "runge_kutta" /\ Ran(3)) =>
        \A v \in StateNames :
            states[v] = Add(macro.orig[v],
                            Mul(Rat(1, 6),
                                Add(Add(Add(K(0, v), Mul(Num(2), K(1, v))),
                                        Mul(Num(2), K(2, v))),
                                    K(3, v))))

C1_Witness ==
    /\ opt = "runge_kutta" /\ Ran(3)
    /\ Recomputed(1)
    /\ K(1, "omega") # Zero

\* C2: with runge_kutta, after stage 1 every state equals its value before
\* stage 0 plus half the k of stage 1, and after stage 2 its value before
\* stage 0 plus the k of stage 2.
C2_StagesFromSnapshot ==
    opt = "runge_kutta" =>
        /\ Ran(1) => \A v \in StateNames :
                        states[v] = Add(macro.orig[v], Mul(Half, K(1, v)))
        /\ Ran(2) => \A v \in StateNames :
                        states[v] = Add(macro.orig[v], K(2, v))

\* C3 as stated: with mod_euler, after stage 1 every state equals its value
\* before stage 0 plus 0.5 * (k1 - k0).
C3_CorrectorFromOriginal ==
    (opt = "mod_euler" /\ Ran(1)) =>
        \A v \in StateNames :
            states[v] = Add(macro.orig[v], Mul(Half, Sub(K(1, v), K(0, v))))

\* C3: with mod_euler, after stage 1 every state equals the value the
\* predictor left (its value before stage 0 plus k0) plus 0.5 * (k1 - k0).
C3_CorrectorFromPredicted ==
    (opt = "mod_euler" /\ Ran(1)) =>
        \A v \in StateNames :
            /\ macro.post[1][v] = Add(macro.orig[v], K(0, v))
            /\ states[v] = Add(macro.post[1][v],
                               Mul(Half, Sub(K(1, v), K(0, v))))

C3_Witness ==
    /\ opt = "mod_euler" /\ Ran(1)
    /\ Recomputed(1)
    /\ K(0, "omega") # Zero

\* C4: with mod_euler, a state whose k at stage 1 equals its k at stage 0
\* is left by the corrector at the predicted value, its value before stage 0
\* plus k0.
C4_CorrectorFixedPoint ==
    (opt = "mod_euler" /\ Ran(1)) =>
        \A v \in StateNames :
            K(1, v) = K(0, v) => states[v] = Add(macro.orig[v], K(0, v))

C4_Witness ==
    /\ opt = "mod_euler" /\ Ran(1)
    /\ \E v \in StateNames : K(1, v) = K(0, v) /\ K(0, v) # Zero

\* C5 as stated: with runge_kutta, in any state, solve_step with a stage
\* outside 0 .. 3 raises nothing and changes none of states, states0, dsteps
\* and signals.
C5_OtherStageAnywhere ==
    [][(opt = "runge_kutta" /\ Called("solve_step") /\ ret'.dstep \notin 0 .. 3)
          => (ret'.exc = "none" /\ UNCHANGED <<states, states0, dsteps, signals>>)]_vars

\* C5: with runge_kutta, on an initialised machine, solve_step with a stage
\* outside 0 .. 3 raises nothing and changes none of states, states0, dsteps
\* and signals.
C5_OtherStageInitialised ==
    [][(opt = "runge_kutta" /\ Initialised
        /\ Called("solve_step") /\ ret'.dstep \notin 0 .. 3)
          => (ret'.exc = "none" /\ UNCHANGED <<states, states0, dsteps, signals>>)]_vars

C5_Witness ==
    /\ opt = "runge_kutta" /\ Initialised
    /\ ret.op = "solve_step" /\ ret.dstep \notin 0 .. 3 /\ ret.exc = "none"
    /\ Has(dsteps, "Eqp") /\ Len(dsteps["Eqp"]) = 3
    /\ dsteps["Eqp"][1] # Zero

\* C6: after initialise the residuals check_diffs recomputes are zero, so no
\* warning is printed.
C6_NoWarning == Initialised => ~warning

\* C7: in the simulation loop without disturbance, started by an
\* initialisation without warning, all four states keep their initial
\* values after every stage of every macro step.
C7_SteadyState ==
    (Initialised /\ ~warning) =>
        states = initial_values(params, env.vt0, env.S0).states

C7_Witness ==
    /\ opt = "runge_kutta" /\ Ran(3)
    /\ calls >= 17
    /\ ~warning
    /\ signals["Pm"] # Zero

\* C8: calc_currents writes none of the states, states0, dsteps and of the
\* signals only Id, Iq, Vd, Vq, P, Q, Vt;
\* solve_step writes no signal; so Pm and Vfd keep the values initialise
\* gave them.
C8_WriteOwnership ==
    /\ [](Initialised =>
            LET s0 == initial_values(params, env.vt0, env.S0).signals
            IN  signals["Pm"] = s0["Pm"] /\ signals["Vfd"] = s0["Vfd"])
    /\ [][/\ Called("calc_currents") =>
               /\ UNCHANGED <<states, states0, dsteps>>
               /\ DOMAIN signals' = DOMAIN signals
               /\ \A n \in DOMAIN signals \ {"Id", "Iq", "Vd", "Vq", "P", "Q", "Vt"} :
                      signals'[n] = signals[n]
          /\ Called("solve_step") => UNCHANGED signals]_vars

C8_Witness ==
    /\ ret.op = "calc_currents" /\ ret.exc = "none"
    /\ Has(dsteps, "Eqp")
    /\ signals["P"] # signals["Pm"]

Missing(dstep) ==
    \/ opt = "mod_euler" /\ dstep # 0 /\ ~Has(dsteps, "Eqp")
    \/ opt = "runge_kutta" /\ dstep \in {1, 2} /\ ~Has(dsteps, "Eqp")
    \/ opt = "runge_kutta" /\ dstep = 3
         /\ (~Has(states0, "Eqp") \/ Len(dsteps["Eqp"]) < 3)

\* what a failing call has to leave: the states untouched, except that
\* Runge-Kutta stages 1 and 2 have overwritten Eqp
FailsAsStated ==
    /\ ret'.exc \in {"KeyError", "IndexError"}
    /\ UNCHANGED <<states0, dsteps>>
    /\ (opt = "mod_euler" \/ ret'.dstep = 3) => UNCHANGED states
    /\ (opt = "runge_kutta" /\ ret'.dstep \in {1, 2}) =>
          /\ DOMAIN states' = StateNames
          /\ \A v \in StateNames \ {"Eqp"} : states'[v] = states[v]
          /\ LET k == derivs(env.h, states, signals, params)["Eqp"]
             IN  states'["Eqp"] = Add(states["Eqp"],
                                      IF ret'.dstep = 1 THEN Mul(Half, k) ELSE k)

\* C10 as stated: a later stage called before its prerequisites fails with
\* a lookup error; the mod_euler corrector and runge_kutta stage 3 leave the
\* states unchanged, runge_kutta stages 1 and 2 fail after overwriting Eqp.
C10_LookupFailuresAnywhere ==
    [][(Called("solve_step") /\ Missing(ret'.dstep)) => FailsAsStated]_vars

\* C10: on an initialised machine, a later stage called before its
\* prerequisites fails with a lookup error; the mod_euler corrector and
\* runge_kutta stage 3 leave the states unchanged, runge_kutta stages 1 and
\* 2 fail after overwriting Eqp.
C10_LookupFailuresInitialised ==
    [][(Initialised /\ Called("solve_step") /\ Missing(ret'.dstep))
          => FailsAsStated]_vars

C10_Witness ==
    /\ opt = "runge_kutta" /\ Initialised
    /\ ret.op = "solve_step" /\ ret.dstep \in {1, 2} /\ ret.exc = "KeyError"
    /\ ~Has(dsteps, "Eqp")
    /\ states["Eqp"] # initial_values(params, env.vt0, env.S0).states["Eqp"]

=============================================================================
